---- MODULE Spec2Model ----
(***************************************************************************)
(* Model of the background-removal HTTP service (src/main.py).             *)
(*                                                                         *)
(* The two POST handlers are coroutines (async def) running on one event   *)
(* loop.  Their only suspension point is `await file.read()`; everything   *)
(* after it runs without yielding.  The variable `running` is the request  *)
(* that currently holds the event loop (0 = none).                         *)
(*                                                                         *)
(* External calls (the upload read, Image.open/load, new_session, remove)  *)
(* are modelled by nondeterministic choice over their outcomes.  The       *)
(* SIGALRM armed by get_model_session is delivered only while the main     *)
(* thread is inside one of the long-running external calls (new_session,   *)
(* remove).                                                                *)
(***************************************************************************)
EXTENDS Integers, Sequences, FiniteSets, TLC

VARIABLES
    MODEL_SESSIONS,  \* the global session cache, a set of <<model id, handle>>
    alarm,           \* the process-wide SIGALRM timer: "off" or "pending"
    running,         \* request holding the event loop, 0 when it is free
    served,          \* number of requests accepted so far
    req,             \* per request slot: the handler's locals and position
    probe            \* the input and result of a function under test, or
                     \* the recorded run of a handler; unused by the service

vars == <<MODEL_SESSIONS, alarm, running, served, req, probe>>

------------------------------------------------------------------------------
(* Bounds of the model *)

NumSlots == 2
MaxRequests == 2
MaxCount == 20

Slots == 1..NumSlots

(* Program constants *)

max_retries == 2
max_size == 4000
MaxUploadMb == 50
BytesPerMb == 1024 * 1024

allowed_types == {"image/png", "image/jpeg", "image/jpg", "image/webp"}

(* Inputs *)

Endpoints == {"json", "binary"}
Models == {"isnet-general-use", "u2net"}
ContentTypes == allowed_types \cup {"text/plain", "image/gif"}
UploadLens == {1024, MaxUploadMb * BytesPerMb, MaxUploadMb * BytesPerMb + 1}
Errors == {"E1", "E2"}

Img(w, h, mode, info) == [size |-> <<w, h>>, mode |-> mode, info |-> info, alpha |-> <<>>]

NoImage == [size |-> <<0, 0>>, mode |-> "None", info |-> {}, alpha |-> <<>>]

\* Decodable uploads: the 10x10 RGB test image, the 4500x3000 scenario, an
\* oversized image whose scaled dimensions fall one short of the exact
\* quotient in double arithmetic, an extreme aspect ratio, and a paletted
\* image with a transparency entry.
Images ==
    { Img(10, 10, "RGB", {}),
      Img(4500, 3000, "RGB", {}),
      Img(4210, 2105, "L", {}),
      Img(5000, 1, "RGB", {}),
      Img(640, 480, "P", {"transparency"}) }

\* Alpha channels of inference results, as histograms <<alpha value, pixels>>
\* in units of 1/20 of the image: no alpha channel, uniformly opaque, and a
\* cutout with half of the pixels transparent.
AlphaProfiles ==
    { [mode |-> "RGB",  alpha |-> <<>>],
      [mode |-> "RGBA", alpha |-> << <<255, 20>> >>],
      [mode |-> "RGBA", alpha |-> << <<0, 10>>, <<255, 10>> >>] }

\* What remove() can return for an input: an image of the input's size (what
\* the library does) or of another size, with any of the alpha profiles.
Results(img) ==
    { [size |-> s, mode |-> p.mode, info |-> {}, alpha |-> p.alpha] :
        s \in {img.size, <<320, 320>>}, p \in AlphaProfiles }

------------------------------------------------------------------------------
(* Pure functions *)

Max2(a, b) == IF a >= b THEN a ELSE b

\* (dim, longer dimension) pairs of Images for which the double product
\* dim * (max_size / longer) lies just below the exact integer quotient.
FloatShort == {<<4210, 4210>>, <<2105, 4210>>}

\* int(dim * ratio) with ratio = max_size / max(image.size)
ScaleDim(dim, longer) ==
    LET q == (dim * max_size) \div longer
    IN  IF <<dim, longer>> \in FloatShort THEN q - 1 ELSE q

\* preprocess_image: (image, original_size), or the ValueError of
\* Image.resize when a requested dimension is not positive.
preprocess_image(image) ==
    LET original_size == image.size
        converted ==
            IF image.mode \notin {"RGB", "RGBA"}
            THEN IF image.mode = "P" /\ "transparency" \in image.info
                 THEN [image EXCEPT !.mode = "RGBA"]
                 ELSE [image EXCEPT !.mode = "RGB"]
            ELSE image
        longer == Max2(converted.size[1], converted.size[2])
        new_size == <<ScaleDim(converted.size[1], longer),
                      ScaleDim(converted.size[2], longer)>>
    IN  IF longer > max_size
        THEN IF new_size[1] < 1 \/ new_size[2] < 1
             THEN [error |-> "ValueError", image |-> NoImage,
                   original_size |-> original_size]
             ELSE [error |-> "None",
                   image |-> [converted EXCEPT !.size = new_size],
                   original_size |-> original_size]
        ELSE [error |-> "None", image |-> converted,
              original_size |-> original_size]

postprocess_image_NoResize(image, original_size) == image

\* postprocess_image with refine=True: resize back, blur the alpha channel
\* (the blur keeps size and mode; its effect on alpha values is not used).
postprocess_image(image, original_size) ==
    IF image.size # original_size
    THEN [image EXCEPT !.size = original_size]
    ELSE image

RECURSIVE SumCounts(_, _)
SumCounts(hist, below) ==
    IF hist = <<>> THEN 0
    ELSE (IF hist[1][1] < below THEN hist[1][2] ELSE 0)
         + SumCounts(Tail(hist), below)

validate_result_Geq(processed) ==
    IF processed.mode # "RGBA" THEN FALSE
    ELSE IF Len(processed.alpha) < 2 THEN FALSE
    ELSE IF SumCounts(processed.alpha, 10) * 100
              >= 95 * SumCounts(processed.alpha, 256) THEN FALSE
    ELSE TRUE

\* validate_result(original, processed); the first argument is unused
validate_result(processed) ==
    IF processed.mode # "RGBA" THEN FALSE
    ELSE IF Len(processed.alpha) < 2 THEN FALSE
    ELSE IF SumCounts(processed.alpha, 10) * 100
              > 95 * SumCounts(processed.alpha, 256) THEN FALSE
    ELSE TRUE

IsAllowedType_NoJpg(content_type) ==
    content_type \in allowed_types \ {"image/jpg"}

IsAllowedType(content_type) == content_type \in allowed_types

TooLarge_Geq(len) == len >= MaxUploadMb * BytesPerMb

\* file_size_mb = len(contents) / (1024 * 1024); file_size_mb > 50
\* (division by a power of two is exact in double arithmetic)
TooLarge(len) == len > MaxUploadMb * BytesPerMb

------------------------------------------------------------------------------
(* The session cache as a dict *)

Keys(d) == {p[1] : p \in d}

DictGet(d, k) == (CHOOSE p \in d : p[1] = k)[2]

DictSet(d, k, v) == {p \in d : p[1] # k} \cup {<<k, v>>}

NeedsLoad_Always(sessions, model_name) == TRUE

\* `if model_name not in MODEL_SESSIONS`
NeedsLoad(sessions, model_name) == model_name \notin Keys(sessions)

NoHandle == [by |-> 0, attempt |-> 0]

NoProbe == [phase |-> "None"]

------------------------------------------------------------------------------
(* Exceptions, responses and the handler's record.  content_type and size
   stand for file.content_type and len(contents); each is read by one check
   only and is cleared in the record at the step after that check.  The
   fields validated .. fallback_error record what the handler has done
   (history): whether validate_result accepted output_image, the size of the
   raw inference result, the outcome of each primary attempt, the calls of
   new_session and how many raised, and the fallback call and its outcome. *)

HTTPException(status, kind, msg) ==
    [type |-> "HTTPException", status |-> status, kind |-> kind, msg |-> msg]

Exception(msg) ==
    [type |-> "Exception", status |-> 0, kind |-> "None", msg |-> msg]

NoException == [type |-> "None", status |-> 0, kind |-> "None", msg |-> "None"]

NoResponse == [status |-> 0, kind |-> "None", msg |-> "None", size |-> <<0, 0>>]

OuterHandler_Remap(exc) ==
    [status |-> 500, kind |-> "ErrorProcessing", msg |-> exc.msg,
     size |-> <<0, 0>>]

\* except HTTPException: raise / except Exception: raise HTTPException(500)
OuterHandler(exc) ==
    IF exc.type = "HTTPException"
    THEN [status |-> exc.status, kind |-> exc.kind, msg |-> exc.msg,
          size |-> <<0, 0>>]
    ELSE [status |-> 500, kind |-> "ErrorProcessing", msg |-> exc.msg,
          size |-> <<0, 0>>]

Fresh ==
    [pc |-> "idle", id |-> 0, endpoint |-> "None", model |-> "None",
     content_type |-> "None", size |-> -1,
     image |-> NoImage, img_for_processing |-> NoImage,
     original_size |-> <<0, 0>>,
     attempt |-> 0, session |-> NoHandle,
     output_image |-> NoImage, output_src |-> "None",
     last_error |-> "None",
     validated |-> FALSE, result_size |-> <<0, 0>>,
     outcomes |-> <<>>, calls |-> <<>>, loads |-> 0, load_failures |-> 0,
     fallbacks |-> 0, fallback |-> "None", fallback_error |-> "None",
     raised |-> NoException, response |-> NoResponse]

\* The handler ends by raising exc, which passes the outer handlers
Raise(rec, exc) ==
    [rec EXCEPT !.pc = "done", !.raised = exc, !.response = OuterHandler(exc)]

\* file.filename of the upload, as sequences of code points:
\* "p.j", a name whose stem has a character outside Latin-1, and a name
\* whose extension has one.
Filenames == {<<112, 46, 106>>, <<1092, 46, 106>>, <<112, 46, 1092>>}

\* original_image.format as detected by Image.open, whatever the declared
\* content type: a format with a save handler, and a read-only one.
Formats == {"JPEG", "PSD"}

\* Formats Image.save has a handler for
SAVE == {"PNG", "JPEG", "WEBP"}

\* s.rsplit('.', 1)[0]: the text before the last '.', all of s without one
RECURSIVE rsplit_stem(_, _)
rsplit_stem(s, i) ==
    IF i = 0 THEN s
    ELSE IF s[i] = 46 THEN SubSeq(s, 1, i - 1)
    ELSE rsplit_stem(s, i - 1)

\* str.encode("latin-1") of a header value succeeds
Latin1(s) == \A i \in 1..Len(s) : s[i] < 256

BuildResponse_SameForBoth(endpoint, fn, fmt) == "None"

\* Building the response after postprocess_image: the JSON handler saves
\* original_image in its own format (KeyError without a save handler), the
\* binary handler puts the file name's stem into a Content-Disposition
\* header, which the response encodes as Latin-1.  "None" when it succeeds.
BuildResponse(endpoint, fn, fmt) ==
    IF endpoint = "json"
    THEN IF fmt \in SAVE THEN "None" ELSE "KeyError"
    ELSE IF Latin1(rsplit_stem(fn, Len(fn))) THEN "None"
         ELSE "UnicodeEncodeError"

LoopFree_Always == TRUE

\* A coroutine starts or resumes only when no other handler is running
LoopFree == running = 0

NoneDone == \A s \in Slots : req[s].pc # "done"

------------------------------------------------------------------------------
(* The retry loop of remove_background / remove_background_binary *)

\* End of one iteration of `for attempt in range(max_retries)`
NextIteration_Extra(rec) ==
    IF rec.attempt < max_retries
    THEN [rec EXCEPT !.attempt = @ + 1, !.pc = "get_session"]
    ELSE [rec EXCEPT !.pc = "after_loop"]

NextIteration(rec) ==
    IF rec.attempt + 1 < max_retries
    THEN [rec EXCEPT !.attempt = @ + 1, !.pc = "get_session"]
    ELSE [rec EXCEPT !.pc = "after_loop"]

\* `except Exception as e` inside the loop: the JSON handler records
\* last_error; on the last attempt the fallback is tried.
ExceptInLoop(rec, e, outcome) ==
    LET noted == [rec EXCEPT
                    !.last_error = IF rec.endpoint = "json" THEN e ELSE @,
                    !.outcomes = Append(@, outcome)]
    IN  IF rec.attempt = max_retries - 1
        THEN [noted EXCEPT !.pc = "fallback"]
        ELSE NextIteration(noted)

LoadFailed_Propagate(rec, e) == Raise(rec, Exception(e))

\* get_model_session raised: the call sits inside the loop's try block
LoadFailed(rec, e) == ExceptInLoop(rec, e, "load_failed")

FallbackFailed_LastError(rec, fallback_error) ==
    Raise(rec, HTTPException(500, "RemovalFailed", rec.last_error))

\* `except Exception as fallback_error: raise HTTPException(500, ...)`
FallbackFailed(rec, fallback_error) ==
    Raise(rec, HTTPException(500, "RemovalFailed", fallback_error))

ValidationFailed_ResetOutput(rec) ==
    NextIteration([rec EXCEPT
        !.output_image = NoImage,
        !.last_error = IF rec.endpoint = "json"
                       THEN "Result validation failed" ELSE @])

\* validate_result returned False: the JSON handler sets last_error and
\* continues, the binary handler falls through to the next iteration;
\* output_image keeps the rejected result.
ValidationFailed(rec) ==
    NextIteration([rec EXCEPT
        !.last_error = IF rec.endpoint = "json"
                       THEN "Result validation failed" ELSE @])

\* Errors an inference call can raise: the library's own, or the
\* TimeoutError of a pending alarm that goes off during the call.
RemoveErrors == Errors \cup (IF alarm = "pending" THEN {"TimeoutError"} ELSE {})

AlarmAfter(e) == IF e = "TimeoutError" THEN "off" ELSE alarm

------------------------------------------------------------------------------
(* Actions *)

Init ==
    /\ MODEL_SESSIONS = {}
    /\ alarm = "off"
    /\ running = 0
    /\ served = 0
    /\ req = [s \in Slots |-> Fresh]
    /\ probe = NoProbe

\* A request arrives (it takes the lowest free slot) and its handler runs
\* up to `await file.read()`: the content-type check.
Start(r) ==
    /\ req[r].pc = "idle"
    /\ \A s \in Slots : s < r => req[s].pc # "idle"
    /\ LoopFree
    /\ NoneDone
    /\ served < MaxRequests
    /\ \E ep \in Endpoints, m \in Models, ct \in ContentTypes :
         LET rec == [Fresh EXCEPT !.id = served + 1, !.endpoint = ep,
                                  !.model = m, !.content_type = ct]
         IN  req' = [req EXCEPT ![r] =
                 IF ~IsAllowedType(ct)
                 THEN Raise(rec, HTTPException(400, "InvalidFileType", "None"))
                 ELSE [rec EXCEPT !.pc = "reading"]]
    /\ served' = served + 1
    /\ UNCHANGED <<MODEL_SESSIONS, alarm, running, probe>>

\* `contents = await file.read()` completes and the coroutine resumes
ReadDone(r) ==
    /\ req[r].pc = "reading"
    /\ LoopFree
    /\ NoneDone
    /\ \E len \in UploadLens :
         req' = [req EXCEPT ![r].size = len, ![r].content_type = "None",
                            ![r].pc = "size_check"]
    /\ running' = r
    /\ UNCHANGED <<MODEL_SESSIONS, alarm, served, probe>>

CheckSize(r) ==
    /\ running = r
    /\ req[r].pc = "size_check"
    /\ IF TooLarge(req[r].size)
       THEN /\ req' = [req EXCEPT ![r] =
                   Raise(@, HTTPException(400, "FileTooLarge", "None"))]
            /\ running' = 0
       ELSE /\ req' = [req EXCEPT ![r].pc = "decode"]
            /\ running' = running
    /\ UNCHANGED <<MODEL_SESSIONS, alarm, served, probe>>

\* Image.open + load(): an image, or an error caught as HTTP 400
Decode(r) ==
    /\ running = r
    /\ req[r].pc = "decode"
    /\ \/ /\ \E img \in Images :
               req' = [req EXCEPT ![r].image = img, ![r].size = -1,
                                  ![r].pc = "preprocess"]
          /\ running' = running
       \/ /\ req' = [req EXCEPT ![r] =
                 Raise([@ EXCEPT !.size = -1],
                       HTTPException(400, "CorruptImage", "DecodeError"))]
          /\ running' = 0
    /\ UNCHANGED <<MODEL_SESSIONS, alarm, served, probe>>

Preprocess(r) ==
    /\ running = r
    /\ req[r].pc = "preprocess"
    /\ LET res == preprocess_image(req[r].image)
       IN  IF res.error # "None"
           THEN /\ req' = [req EXCEPT ![r] = Raise(@, Exception(res.error))]
                /\ running' = 0
           ELSE /\ req' = [req EXCEPT ![r].img_for_processing = res.image,
                                      ![r].original_size = res.original_size,
                                      ![r].attempt = 0,
                                      ![r].pc = "get_session"]
                /\ running' = running
    /\ UNCHANGED <<MODEL_SESSIONS, alarm, served, probe>>

\* get_model_session up to the call of new_session: a cache hit returns the
\* stored handle, a miss arms the alarm and starts the load.
GetSession(r) ==
    /\ running = r
    /\ req[r].pc = "get_session"
    /\ IF NeedsLoad(MODEL_SESSIONS, req[r].model)
       THEN /\ alarm' = "pending"
            /\ req' = [req EXCEPT ![r].loads = @ + 1,
                                   ![r].calls = Append(@, "load"),
                                   ![r].pc = "loading"]
       ELSE /\ alarm' = alarm
            /\ req' = [req EXCEPT
                          ![r].session = DictGet(MODEL_SESSIONS, req[r].model),
                          ![r].pc = "remove"]
    /\ UNCHANGED <<MODEL_SESSIONS, running, served, probe>>

\* new_session returns: store the handle, cancel the alarm
LoadOk(r) ==
    /\ running = r
    /\ req[r].pc = "loading"
    /\ LET h == [by |-> req[r].id, attempt |-> req[r].attempt + 1]
       IN  /\ MODEL_SESSIONS' = DictSet(MODEL_SESSIONS, req[r].model, h)
           /\ req' = [req EXCEPT ![r].session = h, ![r].pc = "remove"]
    /\ alarm' = "off"
    /\ UNCHANGED <<running, served, probe>>

\* the alarm goes off during new_session: alarm(0), re-raise
LoadTimeout(r) ==
    /\ running = r
    /\ req[r].pc = "loading"
    /\ alarm' = "off"
    /\ req' = [req EXCEPT ![r] =
            LoadFailed([@ EXCEPT !.load_failures = @ + 1], "TimeoutError")]
    /\ running' = IF req'[r].pc = "done" THEN 0 ELSE running
    /\ UNCHANGED <<MODEL_SESSIONS, served, probe>>

\* new_session raises another error: re-raised with the alarm left armed
LoadError(r) ==
    /\ running = r
    /\ req[r].pc = "loading"
    /\ alarm' = alarm
    /\ req' = [req EXCEPT ![r] =
            LoadFailed([@ EXCEPT !.load_failures = @ + 1], "LoadError")]
    /\ running' = IF req'[r].pc = "done" THEN 0 ELSE running
    /\ UNCHANGED <<MODEL_SESSIONS, served, probe>>

\* remove(img_for_processing, session=session, ...)
Remove(r) ==
    /\ running = r
    /\ req[r].pc = "remove"
    /\ \/ /\ \E out \in Results(req[r].img_for_processing) :
               req' = [req EXCEPT ![r].output_image = out,
                                  ![r].output_src = "primary",
                                  ![r].calls = Append(@, "remove"),
                                  ![r].validated = FALSE,
                                  ![r].result_size = out.size,
                                  ![r].pc = "validate"]
          /\ alarm' = alarm
       \/ \E e \in RemoveErrors :
            /\ req' = [req EXCEPT ![r] = ExceptInLoop(
                          [@ EXCEPT !.calls = Append(@, "remove")],
                          e, "raised")]
            /\ alarm' = AlarmAfter(e)
    /\ UNCHANGED <<MODEL_SESSIONS, running, served, probe>>

\* `if validate_result(...): break` / else: (last_error), next iteration
Validate(r) ==
    /\ running = r
    /\ req[r].pc = "validate"
    /\ IF validate_result(req[r].output_image)
       THEN req' = [req EXCEPT ![r].outcomes = Append(@, "valid"),
                               ![r].validated = TRUE,
                               ![r].pc = "after_loop"]
       ELSE req' = [req EXCEPT ![r] = ValidationFailed(
                       [@ EXCEPT !.outcomes = Append(@, "invalid")])]
    /\ UNCHANGED <<MODEL_SESSIONS, alarm, running, served, probe>>

\* the fallback: remove(img_for_processing, ...) without a session
Fallback(r) ==
    /\ running = r
    /\ req[r].pc = "fallback"
    /\ \/ /\ \E out \in Results(req[r].img_for_processing) :
               req' = [req EXCEPT ![r] = NextIteration(
                          [@ EXCEPT !.output_image = out,
                                    !.output_src = "fallback",
                                    !.validated = FALSE,
                                    !.result_size = out.size,
                                    !.fallbacks = @ + 1,
                                    !.calls = Append(@, "fallback"),
                                    !.fallback = "ok"])]
          /\ alarm' = alarm
          /\ running' = running
       \/ \E e \in RemoveErrors :
            /\ req' = [req EXCEPT ![r] = FallbackFailed(
                          [@ EXCEPT !.fallbacks = @ + 1,
                                    !.calls = Append(@, "fallback"),
                                    !.fallback = "raised",
                                    !.fallback_error = e], e)]
            /\ alarm' = AlarmAfter(e)
            /\ running' = 0
    /\ UNCHANGED <<MODEL_SESSIONS, served, probe>>

\* after the loop: the None check, postprocess_image, encode and return;
\* file.filename and original_image.format are read here for the first time
AfterLoop(r) ==
    /\ running = r
    /\ req[r].pc = "after_loop"
    /\ IF req[r].output_image = NoImage
       THEN req' = [req EXCEPT ![r] = Raise(@,
                       HTTPException(500, "RemovalFailedAfterAttempts",
                           IF req[r].endpoint = "json" THEN req[r].last_error
                           ELSE "multiple attempts"))]
       ELSE \E fn \in Filenames, fmt \in Formats :
              LET out == postprocess_image(req[r].output_image,
                                           req[r].original_size)
                  err == BuildResponse(req[r].endpoint, fn, fmt)
              IN  IF err # "None"
                  THEN req' = [req EXCEPT ![r] =
                                  Raise([@ EXCEPT !.output_image = out],
                                        Exception(err))]
                  ELSE req' = [req EXCEPT
                                  ![r].output_image = out,
                                  ![r].response =
                                      [status |-> 200, kind |-> "OK",
                                       msg |-> "None", size |-> out.size],
                                  ![r].pc = "done"]
    /\ running' = 0
    /\ UNCHANGED <<MODEL_SESSIONS, alarm, served, probe>>

\* the response has been sent; the slot can take another request
Release(r) ==
    /\ req[r].pc = "done"
    /\ req' = [req EXCEPT ![r] = Fresh]
    /\ UNCHANGED <<MODEL_SESSIONS, alarm, running, served, probe>>

Next ==
    \E r \in Slots :
        \/ Start(r)
        \/ ReadDone(r)
        \/ CheckSize(r)
        \/ Decode(r)
        \/ Preprocess(r)
        \/ GetSession(r)
        \/ LoadOk(r)
        \/ LoadTimeout(r)
        \/ LoadError(r)
        \/ Remove(r)
        \/ Validate(r)
        \/ Fallback(r)
        \/ AfterLoop(r)
        \/ Release(r)

Spec == Init /\ [][Next]_vars

\* One step of the handler coroutine in slot r once the request has arrived:
\* every await and every external call it makes returns or raises.
Step(r) ==
    \/ ReadDone(r)
    \/ CheckSize(r)
    \/ Decode(r)
    \/ Preprocess(r)
    \/ GetSession(r)
    \/ LoadOk(r)
    \/ LoadTimeout(r)
    \/ LoadError(r)
    \/ Remove(r)
    \/ Validate(r)
    \/ Fallback(r)
    \/ AfterLoop(r)
    \/ Release(r)

\* The event loop runs every ready coroutine, and external calls end.
SpecFair == Spec /\ \A r \in Slots : WF_vars(Step(r))

------------------------------------------------------------------------------
(* validate_result applied to result images of every alpha distribution *)

\* Modes remove() can hand back: without alpha, RGBA, grey with alpha
ResultModes == {"RGB", "RGBA", "LA"}

\* The alpha channel with c[1] pixels of value 9, c[2] of value 10 and c[3]
\* of value 255, as the histogram of the values that occur.
HistOf(c) ==
    SelectSeq(<< <<9, c[1]>>, <<10, c[2]>>, <<255, c[3]>> >>,
              LAMBDA p : p[2] > 0)

ProcessedImages ==
    { [size |-> <<c[1] + c[2] + c[3], 1>>, mode |-> m, info |-> {},
       alpha |-> HistOf(c)] :
        m \in ResultModes,
        c \in {d \in (0..MaxCount) \X (0..MaxCount) \X (0..MaxCount) :
                  d[1] + d[2] + d[3] >= 1} }

InitValidate ==
    /\ MODEL_SESSIONS = {}
    /\ alarm = "off"
    /\ running = 0
    /\ served = 0
    /\ req = [s \in Slots |-> Fresh]
    /\ probe \in {[phase |-> "input", processed |-> img, result |-> FALSE] :
                    img \in ProcessedImages}

\* validate_result(img_for_processing, output_image)
ApplyValidate ==
    /\ probe.phase = "input"
    /\ probe' = [probe EXCEPT !.phase = "output",
                              !.result = validate_result(probe.processed)]
    /\ UNCHANGED <<MODEL_SESSIONS, alarm, running, served, req>>

SpecValidate == InitValidate /\ [][ApplyValidate]_vars

------------------------------------------------------------------------------
(* One upload sent to /remove-background and then, from the same cache and  *)
(* alarm state and with the same outcomes of the external calls, to         *)
(* /remove-background-binary.  Both requests run in slot 1.                 *)

\* What a handler's locals show of the upload, the parameters, the external
\* calls made so far and what each returned or raised (last_error and the
\* response are the handler's own doing and are left out).
View(rec) ==
    [model |-> rec.model, content_type |-> rec.content_type,
     size |-> rec.size, image |-> rec.image, session |-> rec.session,
     output_image |-> rec.output_image, result_size |-> rec.result_size,
     calls |-> rec.calls, outcomes |-> rec.outcomes,
     load_failures |-> rec.load_failures,
     fallback |-> rec.fallback, fallback_error |-> rec.fallback_error]

SnapOf(rec, a, sessions) ==
    [view |-> View(rec), alarm |-> a, pc |-> rec.pc, calls |-> rec.calls,
     status |-> rec.response.status, cache |-> sessions]

Snap == SnapOf(req[1], alarm, MODEL_SESSIONS)

Logged == probe.log[Len(probe.log)] = Snap

\* The binary run has seen the upload and outcomes the JSON run saw
Follows ==
    \E i \in DOMAIN probe.log :
        /\ probe.log[i].view = View(req[1])
        /\ probe.log[i].alarm = alarm

\* Cache and alarm states one earlier request (id 1) can leave behind
PairInits ==
    {<<{}, "off">>, <<{}, "pending">>}
    \cup {<<{<<m, [by |-> 1, attempt |-> 1]>>}, "off">> : m \in Models}

InitPair ==
    /\ \E c \in PairInits :
         /\ MODEL_SESSIONS = c[1]
         /\ alarm = c[2]
         /\ probe = [phase |-> "json", cache0 |-> c[1], alarm0 |-> c[2],
                     log |-> <<SnapOf(Fresh, c[2], c[1])>>]
    /\ running = 0
    /\ served = 1
    /\ req = [s \in Slots |-> Fresh]

\* A handler step of the run in progress: of the JSON handler once its
\* previous step is recorded, of the binary handler when the external
\* world answers as it answered the JSON handler.
Pair(A) ==
    /\ probe.phase \in {"json", "binary"}
    /\ probe.phase = "json" => Logged
    /\ A
    /\ req'[1].endpoint = probe.phase
    /\ probe.phase = "binary" => Follows'

PairLog ==
    /\ probe.phase = "json"
    /\ ~Logged
    /\ probe' = [probe EXCEPT !.log = Append(@, Snap)]
    /\ UNCHANGED <<MODEL_SESSIONS, alarm, running, served, req>>

\* The JSON response is out: back to the initial cache and alarm state
PairRewind ==
    /\ probe.phase = "json"
    /\ Logged
    /\ req[1].pc = "done"
    /\ probe' = [probe EXCEPT !.phase = "binary"]
    /\ MODEL_SESSIONS' = probe.cache0
    /\ alarm' = probe.alarm0
    /\ req' = [req EXCEPT ![1] = Fresh]
    /\ served' = 1
    /\ UNCHANGED running

NextPair ==
    \/ Pair(Start(1))
    \/ Pair(ReadDone(1))
    \/ Pair(CheckSize(1))
    \/ Pair(Decode(1))
    \/ Pair(Preprocess(1))
    \/ Pair(GetSession(1))
    \/ Pair(LoadOk(1))
    \/ Pair(LoadTimeout(1))
    \/ Pair(LoadError(1))
    \/ Pair(Remove(1))
    \/ Pair(Validate(1))
    \/ Pair(Fallback(1))
    \/ Pair(AfterLoop(1))
    \/ PairLog
    \/ PairRewind

SpecPair == InitPair /\ [][NextPair]_vars

------------------------------------------------------------------------------
(* Properties *)

Done(r) == req[r].pc = "done"

FailedOutcomes == {"invalid", "raised", "load_failed"}

NothingProcessed(r) ==
    /\ req[r].image = NoImage
    /\ req[r].loads = 0
    /\ req[r].outcomes = <<>>
    /\ req[r].fallbacks = 0

\* C1: an HTTP 200 response never carries an image that failed validation
\* on the primary attempt that produced it.
C1_SuccessIsValidated ==
    \A r \in Slots :
        (Done(r) /\ req[r].response.status = 200
                 /\ req[r].output_src = "primary")
            => req[r].validated

\* C2: when both primary attempts failed (by raising or by an invalid
\* result, in any combination) exactly one fallback call was made before the
\* response; no fallback call is made when a primary attempt validated.
C2_FallbackAfterExhaustion ==
    \A r \in Slots :
        Done(r) =>
            /\ (/\ Len(req[r].outcomes) = max_retries
                /\ \A i \in 1..max_retries : req[r].outcomes[i] \in FailedOutcomes)
                   => req[r].fallbacks = 1
            /\ (\E i \in 1..Len(req[r].outcomes) : req[r].outcomes[i] = "valid")
                   => req[r].fallbacks = 0

\* C3 (as stated): a failed get_model_session is not retried inside the
\* request: one load attempt, no fallback inference, and HTTP 500.
C3_LoadFailureNotRetried ==
    \A r \in Slots :
        (Done(r) /\ req[r].load_failures > 0)
            => /\ req[r].loads = 1
               /\ req[r].fallbacks = 0
               /\ req[r].response.status = 500

\* C3 (amended): a failed get_model_session counts as a failed primary
\* attempt: after a failure on the first attempt get_model_session is called
\* again (a second load attempt), after a failure on the last attempt the
\* fallback inference is made, and such a request ends with HTTP 500 only if
\* the fallback raised or, with a result in hand, building the response
\* failed.
C3_LoadFailureIsFailedAttempt ==
    \A r \in Slots :
        (Done(r) /\ req[r].load_failures > 0)
            => /\ Len(req[r].outcomes) = max_retries
               /\ req[r].outcomes[1] = "load_failed" => req[r].loads = 2
               /\ req[r].outcomes[max_retries] = "load_failed"
                      => req[r].fallbacks = 1
               /\ req[r].response.status = 500
                      => \/ req[r].fallback = "raised"
                         \/ /\ req[r].response.kind = "ErrorProcessing"
                            /\ req[r].output_image # NoImage

C3_Witness ==
    \E r \in Slots :
        /\ Done(r)
        /\ req[r].outcomes = <<"load_failed", "valid">>
        /\ req[r].loads = 2
        /\ req[r].response.status = 200

\* C4: a fallback that raises ends the request with HTTP 500 whose detail
\* carries the fallback's error; it never ends in HTTP 200; and an
\* inference-failure 500 is sent only after both primary attempts failed and
\* the fallback raised.
C4_FallbackFailure ==
    \A r \in Slots :
        Done(r) =>
            /\ req[r].fallback = "raised"
                 => /\ req[r].response.status = 500
                    /\ req[r].response.kind = "RemovalFailed"
                    /\ req[r].response.msg = req[r].fallback_error
            /\ req[r].response.status = 200 => req[r].fallback # "raised"
            /\ req[r].response.kind \in {"RemovalFailed", "RemovalFailedAfterAttempts"}
                 => /\ req[r].response.status = 500
                    /\ Len(req[r].outcomes) = max_retries
                    /\ \A i \in 1..max_retries :
                           req[r].outcomes[i] \in FailedOutcomes
                    /\ req[r].fallbacks = 1
                    /\ req[r].fallback = "raised"

C4_Witness ==
    \E r \in Slots :
        /\ Done(r)
        /\ req[r].endpoint = "json"
        /\ req[r].outcomes = <<"raised", "raised">>
        /\ req[r].last_error = "E1"
        /\ req[r].fallback = "raised"
        /\ req[r].fallback_error = "E2"
        /\ req[r].response.status = 500
        /\ req[r].response.msg = "E2"

\* C5: a content type among image/png, image/jpeg, image/jpg, image/webp
\* passes the type check; any other is answered with HTTP 400 (invalid file
\* type) before the payload is read or decoded and before any model load or
\* inference call.
C5_ContentTypeCheck ==
    \A r \in Slots :
        /\ req[r].content_type \in {"image/png", "image/jpeg", "image/jpg", "image/webp"}
             => /\ req[r].pc = "reading"
                /\ req[r].response = NoResponse
        /\ req[r].content_type \notin
               {"None", "image/png", "image/jpeg", "image/jpg", "image/webp"}
             => /\ Done(r)
                /\ req[r].response.status = 400
                /\ req[r].response.kind = "InvalidFileType"
                /\ req[r].size = -1
                /\ NothingProcessed(r)

C5_Witness ==
    \E r1, r2 \in Slots :
        /\ req[r1].pc = "reading"
        /\ req[r1].content_type = "image/jpg"
        /\ Done(r2)
        /\ req[r2].content_type = "text/plain"
        /\ req[r2].response.status = 400

\* C6: an upload of more than 50*1024*1024 bytes is answered with HTTP 400
\* without any decode, model load or inference call; an upload of exactly
\* 50 MB passes the size check.
C6_SizeCheck ==
    \A r \in Slots :
        (req[r].size # -1 /\ req[r].pc # "size_check")
            => IF req[r].size > 50 * 1024 * 1024
               THEN /\ Done(r)
                    /\ req[r].response.status = 400
                    /\ req[r].response.kind = "FileTooLarge"
                    /\ NothingProcessed(r)
               ELSE /\ req[r].pc = "decode"
                    /\ req[r].response = NoResponse

C6_Witness ==
    \E r \in Slots :
        /\ Done(r)
        /\ req[r].size = 50 * 1024 * 1024 + 1
        /\ req[r].response.status = 400

\* C7: an upload of an allowed type whose bytes fail to open or load is
\* answered with HTTP 400, never 500: the outer handler does not re-map the
\* decode failure.
C7_CorruptIs400 ==
    \A r \in Slots :
        req[r].raised.kind = "CorruptImage"
            => /\ Done(r)
               /\ req[r].response.status = 400
               /\ req[r].response.kind = "CorruptImage"
               /\ req[r].loads = 0 /\ req[r].outcomes = <<>>

C7_Witness ==
    \E r \in Slots :
        /\ Done(r)
        /\ req[r].raised.kind = "CorruptImage"
        /\ req[r].response.status = 400

\* C8: in every successful response the processed image has the width and
\* height of the uploaded image, whether or not preprocessing downsampled it
\* and whatever the size of the inference result.
C8_RoundTripSize ==
    \A r \in Slots :
        (Done(r) /\ req[r].response.status = 200)
            => /\ req[r].response.size = req[r].image.size
               /\ req[r].output_image.size = req[r].image.size

C8_Witness ==
    \E r \in Slots :
        /\ Done(r)
        /\ req[r].response.status = 200
        /\ req[r].image.size = <<4500, 3000>>
        /\ req[r].img_for_processing.size = <<4000, 2666>>
        /\ req[r].result_size = <<320, 320>>
        /\ req[r].response.size = <<4500, 3000>>

Entries(d, k) == {p \in d : p[1] = k}

\* C9: the cache holds at most one entry per model id, a stored entry is
\* never removed or replaced, and once an id is stored no get_model_session
\* call for it invokes the loader again.
C9_CacheStable ==
    /\ [](\A m \in Models : Cardinality(Entries(MODEL_SESSIONS, m)) <= 1)
    /\ [][\A m \in Keys(MODEL_SESSIONS) :
            /\ Entries(MODEL_SESSIONS', m) = Entries(MODEL_SESSIONS, m)
            /\ \A r \in Slots :
                 req'[r].model = m
                   => /\ req'[r].pc # "loading"
                      /\ req'[r].id = req[r].id
                            => req'[r].loads = req[r].loads]_vars

C9_Witness ==
    \E r \in Slots :
        /\ req[r].pc = "remove"
        /\ req[r].loads = 0
        /\ req[r].session = DictGet(MODEL_SESSIONS, req[r].model)
        /\ req[r].session.by # req[r].id

Loading(r) == req[r].pc = "loading"

\* C10 (as stated): while one request is between finding the id absent and
\* storing the session, another request in flight for the same id can go on
\* to its own cache lookup.
C10_SecondCanProceed ==
    \A r1, r2 \in Slots :
        (/\ r1 # r2
         /\ Loading(r1)
         /\ req[r2].pc = "reading"
         /\ req[r2].model = req[r1].model)
            => ENABLED ReadDone(r2)

\* C10 (amended): two requests in flight for the same unseen id do not race:
\* while one is between finding the id absent and storing the session, every
\* other request is suspended at its upload read (or is not in a handler),
\* so no two requests have both found the id absent with a load pending.
C10_NoRace ==
    \A r1, r2 \in Slots :
        (r1 # r2 /\ Loading(r1))
            => /\ req[r2].pc \in {"idle", "reading", "done"}
               /\ running = r1

C10_Witness ==
    \E r1, r2 \in Slots :
        /\ r1 # r2
        /\ Loading(r1)
        /\ req[r2].pc = "reading"
        /\ req[r2].model = req[r1].model
        /\ req[r1].model \notin Keys(MODEL_SESSIONS)

\* C11: the validation-failure message is never surfaced: no response's
\* detail carries "Result validation failed" (the "failed after 2 attempts:
\* <last_error>" response is never sent with it).
C11_ValidationFailureNotSurfaced ==
    \A r \in Slots :
        /\ req[r].response.msg # "Result validation failed"
        /\ req[r].response.kind # "RemovalFailedAfterAttempts"

C11_Witness ==
    \E r \in Slots :
        /\ Done(r)
        /\ req[r].endpoint = "json"
        /\ req[r].outcomes = <<"invalid", "invalid">>
        /\ req[r].last_error = "Result validation failed"
        /\ req[r].response.status = 200

\* C15: whenever get_model_session has returned or raised, its alarm is
\* cancelled: the alarm is never pending while no model load is in progress.
C15_AlarmCancelled ==
    alarm = "pending" => \E r \in Slots : Loading(r)

\* C16: a decoded image with both dimensions >= 1 whose longer dimension
\* exceeds max_size is resized to dimensions >= 1 with the longer one
\* <= max_size, and its request is not failed with HTTP 500 by the resize.
C16_ResizeKeepsPositiveSize ==
    \A r \in Slots :
        LET image == req[r].image
            res == preprocess_image(image)
        IN  (/\ image # NoImage
             /\ image.size[1] >= 1
             /\ image.size[2] >= 1
             /\ Max2(image.size[1], image.size[2]) > max_size)
            => /\ res.error = "None"
               /\ res.image.size[1] >= 1
               /\ res.image.size[2] >= 1
               /\ Max2(res.image.size[1], res.image.size[2]) <= max_size
               /\ ~(/\ req[r].response.status = 500
                    /\ req[r].response.kind = "ErrorProcessing")

CountCalls(r, c) ==
    Cardinality({i \in DOMAIN req[r].calls : req[r].calls[i] = c})

C14_Bounded(r) ==
    /\ CountCalls(r, "remove") <= 2
    /\ CountCalls(r, "fallback") <= 1
    /\ \A i \in DOMAIN req[r].outcomes :
           req[r].outcomes[i] = "valid"
           => /\ i = Len(req[r].outcomes)
              /\ req[r].pc \in {"after_loop", "done"}

C14_OneResponse(r) ==
    /\ req[r].pc = "done" <=> req[r].response # NoResponse
    /\ req[r].response # NoResponse
       => /\ req[r].response.status \in {200, 400, 500}
          /\ req[r].response.status = 200
             => /\ req[r].response.kind = "OK"
                /\ req[r].output_image # NoImage
                /\ req[r].response.size = req[r].image.size
          /\ req[r].response.status # 200
             => /\ req[r].response.kind # "OK"
                /\ req[r].response.size = <<0, 0>>

\* C14: when every external call returns or raises, a request makes at most
\* 2 primary inferences and at most 1 fallback, makes no call after a
\* validated result, and ends with exactly one response: a 200 with the
\* full-size result or one 400/500 error, set once and never changed.
C14_BoundedAndTerminates ==
    /\ [](\A r \in Slots : C14_Bounded(r) /\ C14_OneResponse(r))
    /\ [][\A r \in Slots :
            /\ (req[r].validated /\ req'[r].id = req[r].id)
               => req'[r].calls = req[r].calls
            /\ req[r].response # NoResponse
               => req'[r].response \in {req[r].response, NoResponse}]_vars
    /\ \A r \in Slots : (req[r].pc # "idle") ~> Done(r)

C14_Witness ==
    \E r \in Slots :
        /\ Done(r)
        /\ CountCalls(r, "remove") = 2
        /\ CountCalls(r, "fallback") = 1
        /\ req[r].response.status = 200

Pixels(img, S) ==
    LET idx == {i \in DOMAIN img.alpha : img.alpha[i][1] \in S}
        RECURSIVE Sum(_)
        Sum(I) == IF I = {} THEN 0
                  ELSE LET i == CHOOSE j \in I : TRUE
                       IN  img.alpha[i][2] + Sum(I \ {i})
    IN  Sum(idx)

DistinctAlpha(img) ==
    Cardinality({img.alpha[i][1] : i \in DOMAIN img.alpha})

\* C12: validate_result is false exactly when the mode is not RGBA, or the
\* alpha channel has fewer than two distinct values, or strictly more than
\* 95% of the pixels have alpha < 10; with exactly 95% it is true.
C12_ValidateResult ==
    probe.phase = "output" =>
        LET img == probe.processed
            near == Pixels(img, 0..9)
            all == Pixels(img, 0..255)
        IN  /\ probe.result = FALSE
               <=> \/ img.mode # "RGBA"
                   \/ DistinctAlpha(img) < 2
                   \/ 100 * near > 95 * all
            /\ (/\ img.mode = "RGBA"
                /\ DistinctAlpha(img) >= 2
                /\ 100 * near = 95 * all) => probe.result = TRUE

C12_Witness ==
    /\ probe.phase = "output"
    /\ probe.processed.mode = "RGBA"
    /\ probe.processed.alpha = << <<9, 19>>, <<255, 1>> >>
    /\ probe.result = TRUE

\* C13: for the same upload, parameters, initial cache and outcomes of the
\* external calls, the binary endpoint ends with the calls, the HTTP status
\* and the session cache the JSON endpoint ended with, and until then it can
\* always take its next step.
C13_SamePipeline ==
    probe.phase = "binary" =>
        LET last == probe.log[Len(probe.log)]
        IN  /\ req[1].pc = "done"
               => /\ req[1].calls = last.calls
                  /\ req[1].response.status = last.status
                  /\ MODEL_SESSIONS = last.cache
            /\ req[1].pc # "done" => ENABLED NextPair

====
